---- MODULE Spec2Model ----
(***************************************************************************)
(* Model of src/src/index.ts: the motion / meter DTOs, the classifiers     *)
(* and assertion functions, MotionRepository.createMovingMotion,           *)
(* sanityCheckSensitivity and notifyMeOnMovingHighConsumptionDevice.       *)
(*                                                                         *)
(* JavaScript values are modelled as tagged records [t, n]: a finite       *)
(* number carries its value n counted in an arbitrary positive quantum     *)
(* (only its sign and its order matter to the code); NaN, the infinities,  *)
(* undefined and a non-empty string are the other kinds.  Objects are      *)
(* records kept in a heap indexed by reference, so that aliasing and       *)
(* copying are distinguishable.                                            *)
(***************************************************************************)
EXTENDS Integers, Sequences, FiniteSets, TLC

VARIABLES
  heap,      \* reference -> object (the readings that exist)
  writes,    \* references whose object had a field assigned
  create,    \* the invocation of MotionRepository.createMovingMotion
  db,        \* records handed to dbClient.create, in order
  console,   \* console.warn calls, in order
  inv,       \* invocation id -> invocation of sanityCheckSensitivity
  history,   \* the history store behind motionRepository.getLast*Record
  notify,    \* the invocation of notifyMeOnMovingHighConsumptionDevice
  val        \* direct calls of the two assertion functions

vars == <<heap, writes, create, db, console, inv, history, notify, val>>

\* ---------------------------------------------------------------- bounds
MaxSpeed == 2
MaxPower == 2
NumInvocations == 2

\* ------------------------------------------------------- JavaScript values
Num(n) == [t |-> "number", n |-> n]
Undefined == [t |-> "undefined", n |-> 0]
NaN == [t |-> "NaN", n |-> 0]
PosInfinity == [t |-> "Infinity", n |-> 1]
NegInfinity == [t |-> "Infinity", n |-> -1]
NonEmptyString == [t |-> "string", n |-> 0]

FiniteNumbers == {Num(n) : n \in (0 - MaxSpeed)..MaxSpeed}
PresentValues == FiniteNumbers \cup {NaN, PosInfinity, NegInfinity, NonEmptyString}
Values == PresentValues \cup {Undefined}

\* the value of !!v
Truthy(v) ==
  CASE v.t = "number" -> v.n # 0
    [] v.t = "Infinity" -> TRUE
    [] v.t = "string" -> TRUE
    [] OTHER -> FALSE

\* obj.field: a key that is absent reads as undefined
Get(obj, field) == IF field \in DOMAIN obj THEN obj[field] ELSE Undefined

\* obj.field = v
Put(obj, field, v) ==
  [f \in DOMAIN obj \cup {field} |-> IF f = field THEN v ELSE obj[f]]

\* ------------------------------------------------------------------ DTOs
SensorIds == {"s1", "s2"}
DeviceIds == {"d1", "d2"}
Sensitivities == {"low"}

StaticMotionDto(instants) ==
  [sensorId : SensorIds, deviceId : DeviceIds, timestamp : instants,
   sensitivity : Sensitivities, status : {"static"}]

\* a moving reading as it arrives: speed is whatever the sender put there
MovingMotionDto(instants) ==
  [sensorId : SensorIds, deviceId : DeviceIds, timestamp : instants,
   sensitivity : Sensitivities, status : {"moving"}, speed : PresentValues]
  \cup
  [sensorId : SensorIds, deviceId : DeviceIds, timestamp : instants,
   sensitivity : Sensitivities, status : {"moving"}]

MotionDto(instants) == StaticMotionDto(instants) \cup MovingMotionDto(instants)

MeterDto ==
  [sensorId : {"s1"}, deviceId : {"d1"},
   powerConsumption : 0..MaxPower, maximumPowerConsumption : 0..MaxPower]

\* ------------------------------------------------ classifiers, assertions
OK == "ok"

\* variant: the boundary counted as high
isPowerConsumptionHighOrEqual(meterDto) ==
  meterDto.powerConsumption >= meterDto.maximumPowerConsumption

isPowerConsumptionHigh(meterDto) ==
  meterDto.powerConsumption > meterDto.maximumPowerConsumption

\* variant: typeof input === 'number', true of NaN and of the infinities too
isNumberTypeof(input) == input.t \in {"number", "NaN", "Infinity"}

\* Number.isFinite: no coercion, true only of a finite number
isNumber(input) == input.t = "number"

\* variant: a reading that is not moving is rejected too
assertIsMovingStrict(motionDto) ==
  IF motionDto.status # "moving" \/ ~Truthy(Get(motionDto, "speed"))
    THEN "NotMoving!"
    ELSE OK

\* the thrown string, or OK when the function returns
assertIsMoving(motionDto) ==
  IF motionDto.status = "moving" /\ ~Truthy(Get(motionDto, "speed"))
    THEN "NotMoving!"
    ELSE OK

\* v <= 0 as JavaScript evaluates it: false of NaN, of undefined and of a
\* non-numeric string, decided by the sign for an infinity
LeqZero(v) ==
  CASE v.t = "number" -> v.n <= 0
    [] v.t = "Infinity" -> v.n < 0
    [] OTHER -> FALSE

\* variant: the range check made before the type check
assertNotZeroOrNegativeRangeFirst(speed) ==
  IF LeqZero(speed) THEN "NotZeroOrNegative"
  ELSE IF ~isNumber(speed) THEN "UnknownDataType"
  ELSE OK

assertNotZeroOrNegative(speed) ==
  IF ~isNumber(speed) THEN "UnknownDataType"
  ELSE IF LeqZero(speed) THEN "NotZeroOrNegative"
  ELSE OK

isStatic(motionDto) == motionDto.status = "static"

\* ------------------------------------------------------ MotionRepository
CallerRef == "motionDto"
CloneRef == "sanitizedMotion"

\* variant: no copy is made, the result is the argument itself
structuredCloneAlias(h, ref) == [heap |-> h, ref |-> ref]

\* structuredClone: a new object, field by field equal to the argument
structuredClone(h, ref) ==
  [heap |-> [r \in DOMAIN h \cup {CloneRef} |-> IF r = CloneRef THEN h[ref] ELSE h[r]],
   ref |-> CloneRef]

sanitizeSpeed(speed) == speed

\* variant: the speed is not validated before the record is persisted
createMovingMotionUnchecked(h, motionDto) ==
  LET c == structuredClone(h, motionDto)
      sanitizedMotion == c.ref
      r1 == assertIsMoving(c.heap[sanitizedMotion])
      h2 == [c.heap EXCEPT ![sanitizedMotion] =
               Put(@, "speed", sanitizeSpeed(Get(@, "speed")))]
  IN  IF r1 # OK THEN
        [heap |-> c.heap, written |-> {}, err |-> r1, handed |-> <<>>,
         trace |-> <<"structuredClone", "assertIsMoving">>]
      ELSE
        [heap |-> h2, written |-> {sanitizedMotion}, err |-> OK,
         handed |-> <<h2[sanitizedMotion]>>,
         trace |-> <<"structuredClone", "assertIsMoving",
                     "sanitizeSpeed", "dbClient.create">>]

\* The synchronous part of createMovingMotion, up to the await: the heap it
\* leaves, the references it assigned through, the calls it made in order,
\* the error it threw (OK if none) and the records it handed to dbClient.create.
createMovingMotion(h, motionDto) ==
  LET c == structuredClone(h, motionDto)
      sanitizedMotion == c.ref
      r1 == assertIsMoving(c.heap[sanitizedMotion])
      r2 == assertNotZeroOrNegative(Get(c.heap[sanitizedMotion], "speed"))
      h2 == [c.heap EXCEPT ![sanitizedMotion] =
               Put(@, "speed", sanitizeSpeed(Get(@, "speed")))]
  IN  IF r1 # OK THEN
        [heap |-> c.heap, written |-> {}, err |-> r1, handed |-> <<>>,
         trace |-> <<"structuredClone", "assertIsMoving">>]
      ELSE IF r2 # OK THEN
        [heap |-> c.heap, written |-> {}, err |-> r2, handed |-> <<>>,
         trace |-> <<"structuredClone", "assertIsMoving", "assertNotZeroOrNegative">>]
      ELSE
        [heap |-> h2, written |-> {sanitizedMotion}, err |-> OK,
         handed |-> <<h2[sanitizedMotion]>>,
         trace |-> <<"structuredClone", "assertIsMoving", "assertNotZeroOrNegative",
                     "sanitizeSpeed", "dbClient.create">>]

\* createMovingMotion is called and runs until it throws or awaits dbClient.create
CreateCall ==
  /\ create.pc = "start"
  /\ LET r == createMovingMotion(heap, CallerRef)
     IN  /\ heap' = r.heap
         /\ writes' = writes \cup r.written
         /\ db' = db \o r.handed
         /\ create' = [create EXCEPT !.pc = IF r.err = OK THEN "awaitCreate" ELSE "failed",
                                     !.err = r.err, !.trace = r.trace]
  /\ UNCHANGED <<console, inv, history, notify, val>>

\* dbClient.create resolves: createMovingMotion returns what it resolved with
DbResolve ==
  /\ create.pc = "awaitCreate"
  /\ create' = [create EXCEPT !.pc = "returned", !.result = db]
  /\ UNCHANGED <<heap, writes, db, console, inv, history, notify, val>>

\* dbClient.create rejects: the rejection propagates
DbReject ==
  /\ create.pc = "awaitCreate"
  /\ create' = [create EXCEPT !.pc = "failed", !.err = "DbError"]
  /\ UNCHANGED <<heap, writes, db, console, inv, history, notify, val>>

\* ------------------------------- notifyMeOnMovingHighConsumptionDevice
Warning(msg, deviceId, sensorId, speed, by) ==
  [msg |-> msg, deviceId |-> deviceId, sensorId |-> sensorId, speed |-> speed, by |-> by]

HighWarnings(motionDto) ==
  << Warning("power consumption is high", Get(motionDto, "deviceId"), "", Undefined, 0),
     Warning("moving with speed", "", Get(motionDto, "sensorId"),
             Get(motionDto, "speed"), 0) >>

\* the whole function: the error thrown (OK if none), whether assertIsMoving
\* was run, and the console.warn calls made
notifyMeOnMovingHighConsumptionDevice(motionDto, meterDto) ==
  IF ~isPowerConsumptionHigh(meterDto) THEN
    [err |-> OK, asserted |-> FALSE, warnings |-> <<>>]
  ELSE IF assertIsMoving(motionDto) # OK THEN
    [err |-> assertIsMoving(motionDto), asserted |-> TRUE, warnings |-> <<>>]
  ELSE
    [err |-> OK, asserted |-> TRUE, warnings |-> HighWarnings(motionDto)]

NotifyCall ==
  /\ notify.pc = "start"
  /\ LET r == notifyMeOnMovingHighConsumptionDevice(heap[CallerRef], notify.meterDto)
     IN  /\ console' = console \o r.warnings
         /\ notify' = [notify EXCEPT !.pc = IF r.err = OK THEN "returned" ELSE "failed",
                                     !.err = r.err, !.asserted = r.asserted]
  /\ UNCHANGED <<heap, writes, create, db, inv, history, val>>

\* --------------------------------------- direct calls of the assertions
CallAssertIsMoving ==
  /\ val.isMoving = "pending"
  /\ val' = [val EXCEPT !.isMoving = assertIsMoving(heap[CallerRef])]
  /\ UNCHANGED <<heap, writes, create, db, console, inv, history, notify>>

CallAssertNotZeroOrNegative ==
  /\ val.notZero = "pending"
  /\ val' = [val EXCEPT !.notZero = assertNotZeroOrNegative(val.value)]
  /\ UNCHANGED <<heap, writes, create, db, console, inv, history, notify>>

\* ------------------------------------------------------------- time model
MsPerMinute == 60 * 1000
MsPerHour == 60 * MsPerMinute
MsPerDay == 24 * MsPerHour

\* Date.prototype.toISOString: the instant (ms since the epoch) written out
\* as UTC date and time-of-day fields; the date is kept as a day number
toISOString(ts) ==
  [day |-> ts \div MsPerDay,
   hour |-> (ts % MsPerDay) \div MsPerHour,
   minute |-> (ts % MsPerHour) \div MsPerMinute,
   second |-> (ts % MsPerMinute) \div 1000,
   millisecond |-> ts % 1000]

\* DateTime.fromISO: the instant the fields denote, or an invalid DateTime
\* when a field is out of range
fromISO(iso) ==
  IF /\ iso.hour \in 0..23 /\ iso.minute \in 0..59
     /\ iso.second \in 0..59 /\ iso.millisecond \in 0..999
  THEN [valid |-> TRUE,
        ts |-> iso.day * MsPerDay + iso.hour * MsPerHour + iso.minute * MsPerMinute
                 + iso.second * 1000 + iso.millisecond]
  ELSE [valid |-> FALSE, ts |-> 0]

\* a.diff(b, 'hours'): the elapsed milliseconds as a fraction of an hour
\* (num / den hours); invalid (hours is NaN) when either end is invalid
diffInHours(a, b) ==
  [valid |-> a.valid /\ b.valid, num |-> a.ts - b.ts, den |-> MsPerHour]

ThresholdHours == 12

\* variant: the threshold itself already triggers
hoursExceedThresholdInclusive(diff) ==
  diff.valid /\ diff.num >= ThresholdHours * diff.den

\* diff.hours > 12; a comparison with NaN is false
hoursExceedThreshold(diff) ==
  diff.valid /\ diff.num > ThresholdHours * diff.den

\* ------------------------------------------------- sanityCheckSensitivity
Invocations == 1..NumInvocations

NoRecord == [found |-> FALSE, timestamp |-> toISOString(0)]
Record(iso) == [found |-> TRUE, timestamp |-> iso]

getLastMovingRecord(store, deviceId) == store.moving[deviceId]
getLastStaticRecord(store, deviceId) == store.static[deviceId]

Lookup(fn, deviceId) == [fn |-> fn, deviceId |-> deviceId]

\* variant: the record of the reading's own state is asked for
lookupRequestSameState(motionDto) ==
  IF isStatic(motionDto)
    THEN Lookup("getLastStaticRecord", motionDto.deviceId)
    ELSE Lookup("getLastMovingRecord", motionDto.deviceId)

\* the lookup sanityCheckSensitivity awaits
lookupRequest(motionDto) ==
  IF isStatic(motionDto)
    THEN Lookup("getLastMovingRecord", motionDto.deviceId)
    ELSE Lookup("getLastStaticRecord", motionDto.deviceId)

fetch(store, req) ==
  IF req.fn = "getLastMovingRecord"
    THEN getLastMovingRecord(store, req.deviceId)
    ELSE getLastStaticRecord(store, req.deviceId)

Last(seq) == seq[Len(seq)]

\* variant: the fetched record is kept in one module-level variable, set by
\* the first invocation that awaited and read by all
resolvedRecordShared(i, invs, store) ==
  LET first == CHOOSE j \in DOMAIN invs :
                 /\ invs[j].lookups # <<>>
                 /\ \A k \in DOMAIN invs : invs[k].lookups # <<>> => j <= k
  IN  fetch(store, Last(invs[first].lookups))

\* the record the continuation of invocation i resumes with: the result of
\* its own lookup, held in a local of its own activation
resolvedRecord(i, invs, store) == fetch(store, Last(invs[i].lookups))

\* the code after the await: the console.warn calls it makes
afterLookup(motionDto, record, by) ==
  IF isStatic(motionDto) THEN
    LET lastMovingDate == fromISO(record.timestamp)
        currentStaticDate == fromISO(toISOString(motionDto.timestamp))
        diff == diffInHours(currentStaticDate, lastMovingDate)
    IN  IF hoursExceedThreshold(diff)
          THEN << Warning("sensitivity too low", motionDto.deviceId, "", Undefined, by) >>
          ELSE << >>
  ELSE
    LET lastStaticDate == fromISO(record.timestamp)
        currentMovingDate == fromISO(toISOString(motionDto.timestamp))
        diff == diffInHours(currentMovingDate, lastStaticDate)
    IN  IF hoursExceedThreshold(diff)
          THEN << Warning("sensitivity too high", motionDto.deviceId, "", Undefined, by) >>
          ELSE << >>

\* sanityCheckSensitivity is called and runs up to its await
SanityCall(i) ==
  /\ inv[i].pc = "start"
  /\ inv' = [inv EXCEPT ![i].pc = "awaitLookup",
                        ![i].lookups = Append(@, lookupRequest(inv[i].motionDto))]
  /\ UNCHANGED <<heap, writes, create, db, console, history, notify, val>>

\* the lookup resolves with a record and the function runs to its end
LookupResolve(i) ==
  /\ inv[i].pc = "awaitLookup"
  /\ LET record == resolvedRecord(i, inv, history)
     IN  /\ record.found
         /\ console' = console \o afterLookup(inv[i].motionDto, record, i)
  /\ inv' = [inv EXCEPT ![i].pc = "returned"]
  /\ UNCHANGED <<heap, writes, create, db, history, notify, val>>

\* the lookup rejects (no record for the device, or the store is failing)
LookupReject(i) ==
  /\ inv[i].pc = "awaitLookup"
  /\ inv' = [inv EXCEPT ![i].pc = "failed", ![i].err = "LookupFailed"]
  /\ UNCHANGED <<heap, writes, create, db, console, history, notify, val>>

\* ---------------------------------------------------------- initial state
NoCreate == [pc |-> "start", snapshot |-> <<>>, err |-> OK, trace |-> <<>>, result |-> <<>>]
NoNotify == [pc |-> "start", meterDto |-> <<>>, err |-> OK, asserted |-> FALSE]
NoVal == [value |-> Undefined, snapshot |-> <<>>, isMoving |-> "pending", notZero |-> "pending"]

CreateInstants == {0, MsPerHour}

InitCreate ==
  /\ \E m \in MotionDto(CreateInstants) :
       /\ heap = [r \in {CallerRef} |-> m]
       /\ create = [NoCreate EXCEPT !.snapshot = m]
  /\ writes = {}
  /\ db = <<>>
  /\ console = <<>>
  /\ inv = <<>>
  /\ history = <<>>
  /\ notify = NoNotify
  /\ val = NoVal

NextCreate == CreateCall \/ DbResolve \/ DbReject

SpecCreate == InitCreate /\ [][NextCreate]_vars

\* the instant of the historical records, and readings around 12 hours later
HistInstant == MsPerDay + MsPerHour
HistInstants == {HistInstant}
SanityInstants ==
  {0, HistInstant + ThresholdHours * MsPerHour - 1,
      HistInstant + ThresholdHours * MsPerHour,
      HistInstant + ThresholdHours * MsPerHour + 1,
      HistInstant + (ThresholdHours + 1) * MsPerHour}

SanityReadings ==
  {m \in MotionDto(SanityInstants) :
     m.sensorId = "s1" /\ (m.status = "moving" => Get(m, "speed") = Num(1))}

InvalidISO == [toISOString(HistInstant) EXCEPT !.hour = 25]
HistoryRecords == {Record(toISOString(HistInstant)), Record(InvalidISO), NoRecord}

\* device d1 has every kind of history, device d2 has both records
Stores ==
  {s \in [moving : [DeviceIds -> HistoryRecords], static : [DeviceIds -> HistoryRecords]] :
     /\ s.moving["d2"] = Record(toISOString(HistInstant))
     /\ s.static["d2"] = Record(toISOString(HistInstant))}

InitSanity ==
  /\ inv \in [Invocations -> [pc : {"start"}, motionDto : SanityReadings,
                               lookups : {<<>>}, err : {OK}]]
  /\ history \in Stores
  /\ heap = <<>>
  /\ writes = {}
  /\ db = <<>>
  /\ console = <<>>
  /\ create = NoCreate
  /\ notify = NoNotify
  /\ val = NoVal

NextSanity ==
  \E i \in Invocations : SanityCall(i) \/ LookupResolve(i) \/ LookupReject(i)

SpecSanity == InitSanity /\ [][NextSanity]_vars

InitNotify ==
  /\ \E m \in MotionDto({0}) : heap = [r \in {CallerRef} |-> m]
  /\ \E meter \in MeterDto : notify = [NoNotify EXCEPT !.meterDto = meter]
  /\ writes = {}
  /\ db = <<>>
  /\ console = <<>>
  /\ inv = <<>>
  /\ history = <<>>
  /\ create = NoCreate
  /\ val = NoVal

NextNotify == NotifyCall

SpecNotify == InitNotify /\ [][NextNotify]_vars

InitValidators ==
  /\ \E m \in MotionDto({0}), v \in Values :
       /\ heap = [r \in {CallerRef} |-> m]
       /\ val = [NoVal EXCEPT !.value = v, !.snapshot = m]
  /\ writes = {}
  /\ db = <<>>
  /\ console = <<>>
  /\ inv = <<>>
  /\ history = <<>>
  /\ create = NoCreate
  /\ notify = NoNotify

NextValidators == CallAssertIsMoving \/ CallAssertNotZeroOrNegative

SpecValidators == InitValidators /\ [][NextValidators]_vars

\* ================================================================ claims
CommonFields == {"sensorId", "deviceId", "timestamp", "sensitivity"}

Position(seq, x) == CHOOSE k \in 1..Len(seq) : seq[k] = x

Occurrences(seq, x) == Cardinality({k \in 1..Len(seq) : seq[k] = x})

\* C1: once createMovingMotion has run (awaiting, returned or failed), the
\* caller's reading equals its pre-call snapshot and no field of it was
\* assigned: every assignment went to the clone.
C1_NoMutationLeak ==
  create.pc # "start" =>
    /\ heap[CallerRef] = create.snapshot
    /\ CallerRef \notin writes

C1_Witness ==
  /\ create.pc = "returned"
  /\ writes = {CloneRef}
  /\ heap[CallerRef] = create.snapshot

\* C2: dbClient.create is reached at most once, only after assertIsMoving
\* and then assertNotZeroOrNegative returned on the copy; when either
\* fails the call ends with that error and nothing is handed to dbClient.
C2_PersistOnlyAfterValidation ==
  LET a == assertIsMoving(create.snapshot)
      b == assertNotZeroOrNegative(Get(create.snapshot, "speed"))
  IN  create.pc # "start" =>
        /\ Len(db) <= 1
        /\ Occurrences(create.trace, "dbClient.create") = Len(db)
        /\ db # <<>> =>
              /\ a = OK /\ b = OK
              /\ Occurrences(create.trace, "assertIsMoving") = 1
              /\ Occurrences(create.trace, "assertNotZeroOrNegative") = 1
              /\ Position(create.trace, "assertIsMoving")
                   < Position(create.trace, "assertNotZeroOrNegative")
              /\ Position(create.trace, "assertNotZeroOrNegative")
                   < Position(create.trace, "dbClient.create")
        /\ a # OK => db = <<>> /\ create.pc = "failed" /\ create.err = a
        /\ (a = OK /\ b # OK) => db = <<>> /\ create.pc = "failed" /\ create.err = b

C2_Witness ==
  /\ create.pc = "failed"
  /\ create.err = "NotZeroOrNegative"
  /\ db = <<>>

\* C3: every record handed to dbClient.create has status 'moving' and a
\* finite speed > 0, and its other fields are those of the input.
C3_PersistedIsMovingPositive ==
  \A k \in 1..Len(db) :
    /\ db[k].status = "moving"
    /\ "speed" \in DOMAIN db[k]
    /\ db[k].speed.t = "number"
    /\ db[k].speed.n > 0
    /\ \A f \in CommonFields : db[k][f] = create.snapshot[f]

C3_Witness ==
  /\ Len(db) = 1
  /\ db[1].status = "moving"
  /\ db[1].speed = Num(1)

\* C4: assertNotZeroOrNegative throws 'UnknownDataType' for anything that is
\* not a finite number, else 'NotZeroOrNegative' for 0 and negatives, else
\* returns; a non-number never gets the not-positive error.
C4_ThreeOrderedOutcomes ==
  val.notZero # "pending" =>
    /\ val.value \in {Undefined, NaN, PosInfinity, NegInfinity, NonEmptyString}
         => val.notZero = "UnknownDataType"
    /\ (val.value.t = "number" /\ val.value.n <= 0) => val.notZero = "NotZeroOrNegative"
    /\ (val.value.t = "number" /\ val.value.n > 0) => val.notZero = OK
    /\ val.notZero \in {"UnknownDataType", "NotZeroOrNegative", OK}

C4_Witness ==
  /\ val.value = NegInfinity
  /\ val.notZero = "UnknownDataType"

\* C5: with powerConsumption <= maximumPowerConsumption the function returns
\* with no warning, no error and without running assertIsMoving, whatever
\* the reading.
C5_NotHighNoEffect ==
  (notify.pc # "start"
     /\ notify.meterDto.powerConsumption <= notify.meterDto.maximumPowerConsumption) =>
    /\ notify.pc = "returned"
    /\ notify.err = OK
    /\ ~notify.asserted
    /\ console = <<>>

C5_Witness ==
  /\ notify.pc = "returned"
  /\ notify.meterDto.powerConsumption = notify.meterDto.maximumPowerConsumption
  /\ heap[CallerRef].status = "moving"
  /\ Get(heap[CallerRef], "speed") = Num(0)
  /\ console = <<>>

\* C6: the two overconsumption warnings are emitted only for a moving
\* reading with a high meter: none for a static reading, none when the
\* meter is not high, and exactly the two (device id; sensor id and speed)
\* for a high meter and a moving reading with a positive speed.
C6_WarnOnlyWhenMovingAndHigh ==
  LET m == heap[CallerRef]
      high == notify.meterDto.powerConsumption > notify.meterDto.maximumPowerConsumption
  IN  notify.pc # "start" =>
        /\ (m.status = "static" \/ ~high) => console = <<>>
        /\ (high /\ m.status = "moving" /\ Get(m, "speed").t = "number"
              /\ Get(m, "speed").n > 0) =>
             /\ Len(console) = 2
             /\ console[1].deviceId = m.deviceId
             /\ console[2].sensorId = m.sensorId
             /\ console[2].speed = m.speed

WarningsBy(i) == SelectSeq(console, LAMBDA w : w.by = i)

\* the stored record of the state opposite to the reading's, for its device
OppositeRecord(m) ==
  IF m.status = "static" THEN history.moving[m.deviceId] ELSE history.static[m.deviceId]

\* C7: a returned call has warned iff the reading is more than 12 hours
\* later than the instant the opposite-state record's timestamp denotes
\* (not at exactly 12 hours, not below, not for a negative difference); the
\* warning is 'too low' for a static and 'too high' for a moving reading,
\* names the device, and there is at most one.
C7_WarnIffMoreThanTwelveHours ==
  \A i \in DOMAIN inv :
    inv[i].pc = "returned" =>
      LET m == inv[i].motionDto
          w == WarningsBy(i)
          late == \E t \in HistInstants :
                    /\ OppositeRecord(m).timestamp = toISOString(t)
                    /\ m.timestamp - t > 12 * 60 * 60 * 1000
      IN  /\ Len(w) <= 1
          /\ (w # <<>>) <=> late
          /\ w # <<>> =>
                /\ w[1].deviceId = m.deviceId
                /\ w[1].msg = IF m.status = "static" THEN "sensitivity too low"
                                                     ELSE "sensitivity too high"
C7_Witness ==
  \E i, j \in DOMAIN inv :
    /\ inv[i].pc = "returned" /\ inv[j].pc = "returned"
    /\ inv[i].motionDto.status = "static"
    /\ inv[i].motionDto.timestamp = HistInstant + 12 * 60 * 60 * 1000
    /\ OppositeRecord(inv[i].motionDto).timestamp = toISOString(HistInstant)
    /\ WarningsBy(i) = <<>>
    /\ inv[j].motionDto.timestamp = HistInstant + 12 * 60 * 60 * 1000 + 1
    /\ Len(WarningsBy(j)) = 1

\* C8: a call makes exactly one lookup, getLastMovingRecord for a static and
\* getLastStaticRecord for a moving reading, for the reading's device; it
\* warns only once that lookup has resolved, and a failed lookup ends the
\* call with the failure, no warning and no second lookup.
C8_OneOppositeLookup ==
  \A i \in DOMAIN inv :
    LET m == inv[i].motionDto
    IN  /\ inv[i].pc = "start" => inv[i].lookups = <<>>
        /\ inv[i].pc # "start" =>
              /\ Len(inv[i].lookups) = 1
              /\ inv[i].lookups[1].deviceId = m.deviceId
              /\ inv[i].lookups[1].fn =
                   IF m.status = "static" THEN "getLastMovingRecord"
                                          ELSE "getLastStaticRecord"
        /\ WarningsBy(i) # <<>> => inv[i].pc = "returned"
        /\ inv[i].pc = "failed" => inv[i].err = "LookupFailed"

C8_Witness ==
  \E i \in DOMAIN inv :
    /\ inv[i].pc = "failed"
    /\ inv[i].motionDto.status = "moving"
    /\ inv[i].lookups = << Lookup("getLastStaticRecord", inv[i].motionDto.deviceId) >>
    /\ WarningsBy(i) = <<>>

\* what a call on reading m emits when it is the only call made
AloneWarnings(m, by) ==
  LET record == IF isStatic(m) THEN getLastMovingRecord(history, m.deviceId)
                               ELSE getLastStaticRecord(history, m.deviceId)
  IN  IF record.found THEN afterLookup(m, record, by) ELSE <<>>

\* C10: however the calls interleave at their lookups, a call that has
\* returned has emitted exactly what it emits when run alone on its reading
\* and the stored record, a failed call has emitted nothing, and the
\* console holds nothing but these warnings.
C10_NoInterference ==
  /\ \A i \in DOMAIN inv :
       /\ inv[i].pc = "returned" => WarningsBy(i) = AloneWarnings(inv[i].motionDto, i)
       /\ inv[i].pc # "returned" => WarningsBy(i) = <<>>
  /\ \A k \in 1..Len(console) : console[k].by \in DOMAIN inv

\* one call has returned with its warning while another, for the same
\* device and started on a different lookup, is still suspended
C10_Witness ==
  \E i, j \in DOMAIN inv :
    /\ i < j
    /\ inv[i].pc = "awaitLookup"
    /\ inv[j].pc = "returned"
    /\ inv[i].motionDto.deviceId = inv[j].motionDto.deviceId
    /\ inv[i].motionDto.status # inv[j].motionDto.status
    /\ Len(WarningsBy(j)) = 1
    /\ AloneWarnings(inv[i].motionDto, i) = <<>>

====
